---- MODULE Spec2Model ----
(***************************************************************************)
(* The two feed screens of nostros (ReactionsFeed, NotificationsFeed) as   *)
(* one state machine over a shared RelayPool.  Every step is one run of    *)
(* the JavaScript event loop: a UI callback, a flush of React's passive    *)
(* effects, or the continuation of an awaited database promise.            *)
(***************************************************************************)
EXTENDS Integers, Sequences, FiniteSets, Bags, TLC

VARIABLES
  database,            \* AppContext.database is defined
  publicKey,           \* UserContext.publicKey is defined
  relayPool,           \* RelayPoolContext.relayPool is defined
  life,                \* per feed: "unmounted", "mounted", "gone"
  first,               \* per feed: the context values of the first render
  changed,             \* per feed: the effects whose dependencies changed since the last flush
  pageSize,            \* per feed: useState pageSize
  notes,               \* per feed: useState notes
  refreshing,          \* per feed: useState refreshing
  loads,               \* per feed: the bag of loadNotes invocations in flight
  live,                \* RelayPool: channel name -> filters of the live subscription
  lastOp,              \* history: the handler that ran in the last step
  calls                \* history: the RelayPool calls and page queries of the last step, in order

vars == <<database, publicKey, relayPool, life,
          first, changed, pageSize, notes, refreshing, loads, live, lastOp, calls>>

----------------------------------------------------------------------------
(* Bounds of the model *)

MaxGrowths == 2
MaxBacklog == 0

(* Program constants *)

initialPageSize == 10

----------------------------------------------------------------------------
(* Values *)

RF == "ReactionsFeed"
NF == "NotificationsFeed"
Feeds == {RF, NF}

\* JavaScript undefined and the empty string '' among integer-coded ids
Undefined == -1
EmptyString == 0
\* the viewer's public key
Me == 100

Coalesce(x, d) == IF x = Undefined THEN d ELSE x
Truthy(x) == x # Undefined /\ x # EmptyString

Range(s) == {s[i] : i \in 1..Len(s)}

RFChannels == <<"homepage-contacts-main", "homepage-contacts-meta",
                "homepage-contacts-replies", "homepage-contacts-reactions",
                "homepage-contacts-repost">>
NFChannels == <<"mentions-user", "mentions-answers">>
Channels == {RFChannels[i] : i \in 1..Len(RFChannels)}
              \cup {NFChannels[i] : i \in 1..Len(NFChannels)}
Primary(f) == IF f = RF THEN "homepage-contacts-main" ELSE "mentions-user"

\* The rows the Store can hold: note i of the table.  Notes 1 and 2 share an
\* author, note 3 is a repost, note 11 has no pubkey.
Note(i) ==
  [id |-> i,
   pubkey |-> IF i = 11 THEN Undefined ELSE IF i <= 2 THEN 101 ELSE 100 + i,
   repost_id |-> IF i = 3 THEN 203 ELSE Undefined]
FirstNotes(n) == [i \in 1..n |-> Note(i)]
\* the result sizes a Store query is tried with
ResultSizes == {0, 2, 11}
\* The reactions and replies the Store holds: a reaction to note 3 created at 5,
\* a reply to note 2 created at 7; created_at of the last one among ids, if any
LastReactionAt(ids) == IF 3 \in Range(ids) THEN 5 ELSE Undefined
LastReplyAt(ids) == IF 2 \in Range(ids) THEN 7 ELSE Undefined


EmptyFilter ==
  [kinds |-> {}, has |-> {}, authors |-> <<>>, p |-> <<>>, e |-> <<>>,
   ids |-> <<>>, since |-> 0, limit |-> 0]

NoSub == <<>>

----------------------------------------------------------------------------
(* RelayPool: subscribe(name, filters), unsubscribe(names), unsubscribeAll() *)

PoolSubscribe(l, name, filters) == [l EXCEPT ![name] = filters]
PoolUnsubscribe(l, names) == [n \in Channels |-> IF n \in names THEN NoSub ELSE l[n]]
PoolUnsubscribeAll(l) == [n \in Channels |-> NoSub]

\* px = [live, calls]: the pool and the calls made so far in this step;
\* rp: the relayPool of the calling closure (relayPool?.f is skipped when absent)
Subscribe(px, rp, name, filters) ==
  IF rp
  THEN [live |-> PoolSubscribe(px.live, name, filters),
        calls |-> Append(px.calls, [op |-> "subscribe", names |-> {name},
                                    filters |-> filters,
                                    wasLive |-> px.live[name] # NoSub])]
  ELSE px
Unsubscribe(px, rp, names) ==
  IF rp
  THEN [live |-> PoolUnsubscribe(px.live, names),
        calls |-> Append(px.calls, [op |-> "unsubscribe", names |-> names,
                                    filters |-> NoSub, wasLive |-> FALSE])]
  ELSE px
UnsubscribeAll(px, rp) ==
  IF rp
  THEN [live |-> PoolUnsubscribeAll(px.live),
        calls |-> Append(px.calls, [op |-> "unsubscribeAll", names |-> Channels,
                                    filters |-> NoSub, wasLive |-> FALSE])]
  ELSE px
\* getReactedNotes / getMentionNotes is called with a limit
Query(px, limit) ==
  [px EXCEPT !.calls = Append(@, [op |-> "query", names |-> {},
                                  filters |-> <<[EmptyFilter EXCEPT !.has = {"limit"},
                                                                    !.limit = limit]>>,
                                  wasLive |-> FALSE])]

----------------------------------------------------------------------------
(* Closures: the values a render's functions see *)

Closure(db, pk, rp, ps) == [database |-> db, publicKey |-> pk, relayPool |-> rp, pageSize |-> ps]
\* the functions of the current render
Cur(f) == Closure(database, publicKey, relayPool, pageSize[f])
\* the functions of the first render, kept by useCallback(..., [])
FirstRender(f) == Closure(first[f].database, first[f].publicKey, first[f].relayPool,
                          initialPageSize)

NoLoad == [stage |-> "none", limit |-> 0, relayPool |-> FALSE, notes |-> <<>>, subs |-> 0]
\* (mutant) the query asks for one page more than is shown
NewLoad_NextPage(c) == [stage |-> "query", limit |-> c.pageSize + initialPageSize,
                        relayPool |-> c.relayPool, notes |-> <<>>, subs |-> 0]

NewLoad(c) == [stage |-> "query", limit |-> c.pageSize, relayPool |-> c.relayPool,
               notes |-> <<>>, subs |-> 0]

\* a handler's running state: pool, refreshing, loads started
Run(f) == [px |-> [live |-> live, calls |-> <<>>], refreshing |-> refreshing[f],
           loads |-> loads[f]]

NoteId(note) == Coalesce(note.id, EmptyString)
NotePubkeyOrEmpty(note) == Coalesce(note.pubkey, EmptyString)
NotePubkey(note) == note.pubkey
NoteRepostOrEmpty(note) == Coalesce(note.repost_id, EmptyString)
HasRepost(note) == Truthy(note.repost_id)
NoteIds(ns) == [i \in DOMAIN ns |-> NoteId(ns[i])]

----------------------------------------------------------------------------
(* ReactionsFeed: the functions of one render, over its closure c *)

RF_unsubscribe(c, r) ==
  [r EXCEPT !.px = Unsubscribe(r.px, c.relayPool, Range(RFChannels))]

\* (mutant) the primary subscription always asks for the initial page
RF_mainFilters_InitialLimit(c) ==
  <<[EmptyFilter EXCEPT !.kinds = {"Reaction"}, !.has = {"authors", "limit"},
                        !.authors = <<Me>>, !.limit = initialPageSize]>>

RF_mainFilters(c) ==
  <<[EmptyFilter EXCEPT !.kinds = {"Reaction"}, !.has = {"authors", "limit"},
                        !.authors = <<Me>>, !.limit = c.pageSize]>>

RF_subscribeNotes(c, r) ==
  IF ~c.database \/ ~c.publicKey
  THEN r
  ELSE [r EXCEPT !.px = Subscribe(r.px, c.relayPool, "homepage-contacts-main",
                                  RF_mainFilters(c)),
                 !.refreshing = FALSE]

RF_loadNotes(c, r) ==
  IF c.database /\ c.publicKey
  THEN [r EXCEPT !.loads = r.loads (+) SetToBag({NewLoad(c)}),
                 !.px = Query(r.px, c.pageSize)]
  ELSE r

RF_mountEffect(c, r) == RF_loadNotes(c, RF_subscribeNotes(c, RF_unsubscribe(c, r)))

RF_signalEffect(c, r) ==
  IF c.relayPool /\ c.publicKey THEN RF_loadNotes(c, r) ELSE r

\* (mutant) the pageSize effect also reloads, as NotificationsFeed's does
RF_pageSizeEffect_WithLoad(c, r) ==
  IF c.pageSize > initialPageSize THEN RF_loadNotes(c, RF_subscribeNotes(c, r)) ELSE r

RF_pageSizeEffect(c, r) ==
  IF c.pageSize > initialPageSize THEN RF_subscribeNotes(c, r) ELSE r

RF_onRefresh(c, r) ==
  RF_subscribeNotes(c, RF_unsubscribe(c, [r EXCEPT !.refreshing = TRUE]))

----------------------------------------------------------------------------
(* NotificationsFeed: the functions of one render, over its closure c *)

NF_userFilters(c) ==
  <<[EmptyFilter EXCEPT !.kinds = {"textNote"}, !.has = {"#p", "limit"},
                        !.p = <<Me>>, !.limit = c.pageSize],
    [EmptyFilter EXCEPT !.kinds = {"textNote"}, !.has = {"#e", "limit"},
                        !.e = <<Me>>, !.limit = c.pageSize]>>

NF_subscribeNotes(c, r) ==
  IF ~c.database \/ ~c.publicKey
  THEN r
  ELSE [r EXCEPT !.px = Subscribe(r.px, c.relayPool, "mentions-user", NF_userFilters(c))]

NF_calculateInitialNotes(c, r) ==
  IF c.database /\ c.publicKey THEN NF_subscribeNotes(c, r) ELSE r

NF_loadNotes(c, r) ==
  IF c.database /\ c.publicKey
  THEN [r EXCEPT !.loads = r.loads (+) SetToBag({NewLoad(c)}),
                 !.px = Query(r.px, c.pageSize)]
  ELSE r

\* the synchronous part of the [publicKey, relayPool] effect and of onRefresh;
\* the .then(() => loadNotes()) it queues is NF_thenLoadNotes
NF_initialize(c, r) ==
  LET r1 == [r EXCEPT !.px = UnsubscribeAll(r.px, c.relayPool)]
  IN  IF c.relayPool /\ c.publicKey THEN NF_calculateInitialNotes(c, r1) ELSE r1

NF_thenLoadNotes(c, r) ==
  IF c.relayPool /\ c.publicKey THEN NF_loadNotes(c, r) ELSE r

NF_signalEffect(c, r) == NF_loadNotes(c, r)

NF_pageSizeEffect(c, r) ==
  IF c.pageSize > initialPageSize
  THEN NF_loadNotes(c, NF_subscribeNotes(c,
         [r EXCEPT !.px = UnsubscribeAll(r.px, c.relayPool)]))
  ELSE r

NF_onRefresh(c, r) ==
  NF_thenLoadNotes(c, NF_initialize(c, [r EXCEPT !.refreshing = TRUE]))

----------------------------------------------------------------------------
(* React: dependency arrays and the flush of passive effects *)

Pending(f) == changed[f] # {}

\* the effects a commit runs: all of them on mount, else those whose
\* dependency array changed
AllEffects(f) == IF f = RF THEN {"mount", "signal", "pageSize"}
                           ELSE {"context", "signal", "pageSize"}

\* a dependency changed: every mounted feed that lists it re-runs the effect
Touch(fs, effect) ==
  [f \in Feeds |-> IF f \in fs /\ life[f] = "mounted" THEN changed[f] \cup {effect}
                                                      ELSE changed[f]]

\* the effects of one commit, in the order the component declares them
RF_effects(c, r, ran) ==
  LET r1 == IF "mount" \in ran THEN RF_mountEffect(c, r) ELSE r
      r2 == IF "signal" \in ran THEN RF_signalEffect(c, r1) ELSE r1
  IN  IF "pageSize" \in ran THEN RF_pageSizeEffect(c, r2) ELSE r2

NF_effects(c, r, ran) ==
  LET r1 == IF "context" \in ran THEN NF_initialize(c, r) ELSE r
      r2 == IF "signal" \in ran THEN NF_signalEffect(c, r1) ELSE r1
      r3 == IF "pageSize" \in ran THEN NF_pageSizeEffect(c, r2) ELSE r2
  IN  IF "context" \in ran THEN NF_thenLoadNotes(c, r3) ELSE r3

Effects(f, c, r, ran) == IF f = RF THEN RF_effects(c, r, ran) ELSE NF_effects(c, r, ran)

NoOp == [op |-> "none", feed |-> RF, ran |-> {}, load |-> NoLoad]
Op(name, f, ran, load) == [op |-> name, feed |-> f, ran |-> ran, load |-> load]

\* write back what a handler of feed f did
Commit(f, r, op) ==
  \* bound: loads are started only when at most MaxBacklog are still in flight
  /\ r.loads # loads[f] => BagCardinality(loads[f]) <= MaxBacklog
  /\ live' = r.px.live
  /\ calls' = r.px.calls
  /\ refreshing' = [refreshing EXCEPT ![f] = r.refreshing]
  /\ loads' = [loads EXCEPT ![f] = r.loads]
  /\ lastOp' = op

----------------------------------------------------------------------------
(* Initial state: nothing mounted, any context *)

InitialRefreshing(f) == f = NF
NoFirst == [database |-> FALSE, publicKey |-> FALSE, relayPool |-> FALSE]

Init ==
  /\ database \in BOOLEAN
  /\ publicKey \in BOOLEAN
  /\ relayPool \in BOOLEAN
  /\ life = [f \in Feeds |-> "unmounted"]
  /\ first = [f \in Feeds |-> NoFirst]
  /\ changed = [f \in Feeds |-> {}]
  /\ pageSize = [f \in Feeds |-> initialPageSize]
  /\ notes = [f \in Feeds |-> <<>>]
  /\ refreshing = [f \in Feeds |-> InitialRefreshing(f)]
  /\ loads = [f \in Feeds |-> EmptyBag]
  /\ live = [n \in Channels |-> NoSub]
  /\ lastOp = NoOp
  /\ calls = <<>>

----------------------------------------------------------------------------
(* Steps *)

\* first render and its effects
Mount(f) ==
  /\ life[f] = "unmounted"
  /\ life' = [life EXCEPT ![f] = "mounted"]
  /\ first' = [first EXCEPT ![f] = [database |-> database, publicKey |-> publicKey,
                                    relayPool |-> relayPool]]
  /\ LET ran == AllEffects(f)
     IN  Commit(f, Effects(f, Cur(f), Run(f), ran), Op("mount", f, ran, NoLoad))
  /\ UNCHANGED <<database, publicKey, relayPool, changed, pageSize, notes>>

\* the component is removed and its state with it; neither feed registers an
\* effect cleanup, and the loads in flight still complete
Unmount(f) ==
  /\ life[f] = "mounted"
  /\ life' = [life EXCEPT ![f] = "gone"]
  /\ changed' = [changed EXCEPT ![f] = {}]
  /\ first' = [first EXCEPT ![f] = NoFirst]
  /\ pageSize' = [pageSize EXCEPT ![f] = initialPageSize]
  /\ notes' = [notes EXCEPT ![f] = <<>>]
  /\ refreshing' = [refreshing EXCEPT ![f] = InitialRefreshing(f)]
  /\ lastOp' = Op("unmount", f, {}, NoLoad)
  /\ calls' = <<>>
  /\ UNCHANGED <<database, publicKey, relayPool, loads, live>>

\* the effects of a re-render whose dependencies changed
FlushEffects(f) ==
  /\ life[f] = "mounted"
  /\ Pending(f)
  /\ changed' = [changed EXCEPT ![f] = {}]
  /\ LET ran == changed[f]
     IN  Commit(f, Effects(f, Cur(f), Run(f), ran), Op("effects", f, ran, NoLoad))
  /\ UNCHANGED <<database, publicKey, relayPool, life, first, pageSize, notes>>

\* (mutant) the page doubles instead of growing by one initial page
GrowPageSize_Doubled(p) == p + p

GrowPageSize(p) == p + initialPageSize

\* onScroll; hit is the result of handleInfinityScroll(event)
onScroll(f, hit) ==
  /\ life[f] = "mounted"
  /\ ~Pending(f)
  /\ IF hit
     THEN /\ pageSize[f] < initialPageSize * (1 + MaxGrowths)
          /\ pageSize' = [pageSize EXCEPT ![f] = GrowPageSize(pageSize[f])]
          /\ changed' = IF pageSize'[f] # pageSize[f] THEN Touch({f}, "pageSize")
                                                      ELSE changed
          /\ lastOp' = Op("onScroll", f, {}, NoLoad)
          /\ calls' = <<>>
     ELSE UNCHANGED <<pageSize, changed, lastOp, calls>>
  /\ UNCHANGED <<database, publicKey, relayPool, life, first, notes, refreshing,
                 loads, live>>

\* onRefresh is useCallback(..., []): it runs the functions of the first render
onRefresh(f) ==
  /\ life[f] = "mounted"
  /\ ~Pending(f)
  /\ LET c == FirstRender(f)
         r == IF f = RF THEN RF_onRefresh(c, Run(f)) ELSE NF_onRefresh(c, Run(f))
     IN  Commit(f, r, Op("onRefresh", f, {}, NoLoad))
  /\ UNCHANGED <<database, publicKey, relayPool, life, first, changed, pageSize, notes>>

\* RelayPoolContext.lastEventId advances: a dependency of both feeds
EventStored ==
  /\ \A f \in Feeds : ~Pending(f)
  /\ changed' = Touch(Feeds, "signal")
  /\ lastOp' = NoOp
  /\ calls' = <<>>
  /\ UNCHANGED <<database, publicKey, relayPool, life, first, pageSize, notes,
                 refreshing, loads, live>>

\* RelayPoolContext.lastConfirmationtId advances: a dependency of ReactionsFeed
EventConfirmed ==
  /\ \A f \in Feeds : ~Pending(f)
  /\ changed' = Touch({RF}, "signal")
  /\ lastOp' = NoOp
  /\ calls' = <<>>
  /\ UNCHANGED <<database, publicKey, relayPool, life, first, pageSize, notes,
                 refreshing, loads, live>>

\* a context value becomes defined; publicKey and relayPool are dependencies
\* of NotificationsFeed's first effect
ContextReady ==
  /\ \A f \in Feeds : ~Pending(f)
  /\ \/ ~database /\ database' = TRUE /\ UNCHANGED <<publicKey, relayPool, changed>>
     \/ ~publicKey /\ publicKey' = TRUE /\ UNCHANGED <<database, relayPool>>
                   /\ changed' = Touch({NF}, "context")
     \/ ~relayPool /\ relayPool' = TRUE /\ UNCHANGED <<database, publicKey>>
                   /\ changed' = Touch({NF}, "context")
  /\ lastOp' = NoOp
  /\ calls' = <<>>
  /\ UNCHANGED <<life, first, pageSize, notes, refreshing, loads, live>>

----------------------------------------------------------------------------
(* The continuations of loadNotes *)

\* the load ld after a part of its callback ran: px before, qx after, next stage;
\* limit is the pageSize handed to the Store query, unused once it resolved
Advance(ld, px, qx, stage) ==
  [ld EXCEPT !.stage = stage, !.subs = ld.subs + Len(qx.calls) - Len(px.calls)]

RF_metaFilters(ns) ==
  <<[EmptyFilter EXCEPT !.kinds = {"Metadata"}, !.has = {"authors"},
                        !.authors = [i \in DOMAIN ns |-> NotePubkeyOrEmpty(ns[i])]]>>
RF_reactionsFilters(ns, since) ==
  <<[EmptyFilter EXCEPT !.kinds = {"Reaction"}, !.has = {"#e", "since"},
                        !.e = NoteIds(ns), !.since = since]>>
RF_repliesFilters(ns, since) ==
  <<[EmptyFilter EXCEPT !.kinds = {"Text"}, !.has = {"#e", "since"},
                        !.e = NoteIds(ns), !.since = since]>>
\* (mutant) the repost ids of all notes, reposts or not
RF_repostIds_Unfiltered(ns) == [i \in DOMAIN ns |-> NoteRepostOrEmpty(ns[i])]

RF_repostIds(ns) ==
  LET reposts == SelectSeq(ns, HasRepost)
  IN  [i \in DOMAIN reposts |-> NoteRepostOrEmpty(reposts[i])]
RF_repostFilters(ns) ==
  <<[EmptyFilter EXCEPT !.kinds = {"Text"}, !.has = {"ids"}, !.ids = RF_repostIds(ns)]>>

\* (mutant) one metadata subscription per loaded note
RECURSIVE SubscribeEach(_, _, _, _)
SubscribeEach(px, rp, name, fs) ==
  IF fs = <<>> THEN px
  ELSE SubscribeEach(Subscribe(px, rp, name, <<Head(fs)>>), rp, name, Tail(fs))
RF_notesLoaded_MetaPerNote(ld, ns, px) ==
  LET all == [i \in DOMAIN ns |-> RF_metaFilters(<<ns[i]>>)[1]]
      qx == SubscribeEach(px, ld.relayPool, "homepage-contacts-meta", all)
  IN  IF Len(ns) > 0
      THEN [px |-> qx,
            load |-> Advance([ld EXCEPT !.notes = ns, !.limit = 0], px, qx, "reaction")]
      ELSE [px |-> px,
            load |-> Advance([ld EXCEPT !.notes = ns, !.limit = 0], px, px, "done")]

\* getReactedNotes(...).then(async (notes) => ...) up to its first await
RF_notesLoaded(ld, ns, px) ==
  IF Len(ns) > 0
  THEN LET qx == Subscribe(px, ld.relayPool, "homepage-contacts-meta", RF_metaFilters(ns))
       IN  [px |-> qx, load |-> Advance([ld EXCEPT !.notes = ns, !.limit = 0], px, qx, "reaction")]
  ELSE [px |-> px, load |-> Advance([ld EXCEPT !.notes = ns, !.limit = 0], px, px, "done")]

\* after await getLastReaction, up to await getLastReply
RF_lastReactionLoaded(ld, px) ==
  LET since == Coalesce(LastReactionAt(NoteIds(ld.notes)), 0)
      qx == Subscribe(px, ld.relayPool, "homepage-contacts-reactions",
                      RF_reactionsFilters(ld.notes, since))
  IN  [px |-> qx, load |-> Advance(ld, px, qx, "reply")]

\* after await getLastReply, to the end of the callback
RF_lastReplyLoaded(ld, px) ==
  LET since == Coalesce(LastReplyAt(NoteIds(ld.notes)), 0)
      qx == Subscribe(px, ld.relayPool, "homepage-contacts-replies",
                      RF_repliesFilters(ld.notes, since))
      sx == IF Len(RF_repostIds(ld.notes)) > 0
            THEN Subscribe(qx, ld.relayPool, "homepage-contacts-repost",
                           RF_repostFilters(ld.notes))
            ELSE qx
  IN  [px |-> sx, load |-> Advance(ld, px, sx, "done")]

NF_answersFilters(ns) ==
  <<[EmptyFilter EXCEPT !.kinds = {"reaction"}, !.has = {"#e"}, !.e = NoteIds(ns)],
    [EmptyFilter EXCEPT !.kinds = {"meta"}, !.has = {"authors"},
                        !.authors = [i \in DOMAIN ns |-> NotePubkey(ns[i])]]>>

\* getMentionNotes(...).then((notes) => ...)
NF_notesLoaded(ld, ns, px) ==
  LET qx == Subscribe(px, ld.relayPool, "mentions-answers", NF_answersFilters(ns))
  IN  [px |-> qx, load |-> Advance([ld EXCEPT !.notes = ns, !.limit = 0], px, qx, "done")]

\* write back what a continuation of the load ld of feed f did
Continue(f, ld, res, name) ==
  /\ live' = res.px.live
  /\ calls' = res.px.calls
  /\ loads' = [loads EXCEPT ![f] = IF res.load.stage \in {"done", "failed"}
                                   THEN @ (-) SetToBag({ld})
                                   ELSE (@ (-) SetToBag({ld})) (+) SetToBag({res.load})]
  /\ lastOp' = Op(name, f, {}, res.load)

NoCalls == [live |-> live, calls |-> <<>>]

\* the Store query resolves with the first n notes of its table (n <= limit)
LoadResolve(f, ld, n) ==
  /\ ld \in BagToSet(loads[f])
  /\ ld.stage = "query"
  /\ n <= ld.limit
  /\ LET ns == FirstNotes(n)
     IN  /\ Continue(f, ld, IF f = RF THEN RF_notesLoaded(ld, ns, NoCalls)
                                      ELSE NF_notesLoaded(ld, ns, NoCalls),
                     "loadResolve")
         \* a state update of an unmounted component is dropped
         /\ notes' = IF life[f] = "mounted" THEN [notes EXCEPT ![f] = ns] ELSE notes
  /\ refreshing' = IF f = NF /\ life[f] = "mounted"
                   THEN [refreshing EXCEPT ![f] = FALSE] ELSE refreshing
  /\ UNCHANGED <<database, publicKey, relayPool, life, first, changed, pageSize>>

LoadReaction(ld) ==
  /\ ld \in BagToSet(loads[RF])
  /\ ld.stage = "reaction"
  /\ Continue(RF, ld, RF_lastReactionLoaded(ld, NoCalls), "loadReaction")
  /\ UNCHANGED <<database, publicKey, relayPool, life, first, changed, pageSize,
                 notes, refreshing>>

LoadReply(ld) ==
  /\ ld \in BagToSet(loads[RF])
  /\ ld.stage = "reply"
  /\ Continue(RF, ld, RF_lastReplyLoaded(ld, NoCalls), "loadReply")
  /\ UNCHANGED <<database, publicKey, relayPool, life, first, changed, pageSize,
                 notes, refreshing>>

\* an awaited Store promise rejects: nothing catches it, the callback ends there
LoadFail(f, ld) ==
  /\ ld \in BagToSet(loads[f])
  /\ Continue(f, ld, [px |-> NoCalls, load |-> [NoLoad EXCEPT !.stage = "failed"]],
              "loadFail")
  /\ UNCHANGED <<database, publicKey, relayPool, life, first, changed, pageSize,
                 notes, refreshing>>

----------------------------------------------------------------------------

\* the other feeds were never mounted: one screen per run
Alone(f) == \A g \in Feeds \ {f} : life[g] = "unmounted"

Next ==
  \/ \E f \in Feeds : Alone(f) /\ Mount(f)
  \/ \E f \in Feeds : Unmount(f)
  \/ \E f \in Feeds : FlushEffects(f)
  \/ \E f \in Feeds, hit \in BOOLEAN : onScroll(f, hit)
  \/ \E f \in Feeds : onRefresh(f)
  \/ EventStored
  \/ EventConfirmed
  \/ ContextReady
  \/ \E f \in Feeds : \E ld \in BagToSet(loads[f]), n \in ResultSizes : LoadResolve(f, ld, n)
  \/ \E ld \in BagToSet(loads[RF]) : LoadReaction(ld)
  \/ \E ld \in BagToSet(loads[RF]) : LoadReply(ld)
  \/ \E f \in Feeds : \E ld \in BagToSet(loads[f]) : LoadFail(f, ld)

Spec == Init /\ [][Next]_vars

\* The two screens side by side (tabs of one navigator), over the one
\* RelayPool of RelayPoolContext: the context is defined from the start and
\* the pages keep their initial size.
InitShared == Init /\ database /\ publicKey /\ relayPool

NextShared ==
  \/ \E f \in Feeds : Mount(f)
  \/ \E f \in Feeds : Unmount(f)
  \/ \E f \in Feeds : FlushEffects(f)
  \/ \E f \in Feeds : onRefresh(f)
  \/ EventStored
  \/ EventConfirmed
  \/ \E f \in Feeds : \E ld \in BagToSet(loads[f]), n \in ResultSizes : LoadResolve(f, ld, n)
  \/ \E ld \in BagToSet(loads[RF]) : LoadReaction(ld)
  \/ \E ld \in BagToSet(loads[RF]) : LoadReply(ld)
  \/ \E f \in Feeds : \E ld \in BagToSet(loads[f]) : LoadFail(f, ld)

SpecShared == InitShared /\ [][NextShared]_vars

----------------------------------------------------------------------------
(* Properties.  lastOp and calls describe the step that led to the state. *)

\* the calls of the last step that subscribe channel name
Subscribes(name) ==
  {i \in DOMAIN calls : calls[i].op = "subscribe" /\ name \in calls[i].names}
\* the calls of the last step that retire channel name
Retires(name) ==
  {i \in DOMAIN calls : calls[i].op \in {"unsubscribe", "unsubscribeAll"}
                        /\ name \in calls[i].names}
Limits(filters) == {filters[k].limit : k \in DOMAIN filters}
ContextPresent == database /\ publicKey /\ relayPool
FirstContextPresent(f) == first[f].database /\ first[f].publicKey /\ first[f].relayPool
LoadOps == {"loadResolve", "loadReaction", "loadReply", "loadFail"}

\* C1 (as claimed): a refresh, handled by a feed whose every render saw the
\* database, the public key and the relay pool, retires the primary
\* subscription and then reissues it with limit = the current pageSize
C1_RefreshReissuesAtCurrentPageSize ==
  \A f \in Feeds :
    (lastOp.op = "onRefresh" /\ lastOp.feed = f /\ ContextPresent
       /\ FirstContextPresent(f))
    => \E i \in Retires(Primary(f)), j \in Subscribes(Primary(f)) :
         /\ i < j
         /\ Limits(calls[j].filters) = {pageSize[f]}

\* C2: whatever a mounted feed does (scroll, refresh, effects, loads), its
\* pageSize either stays or grows by exactly initialPageSize; it never
\* decreases and is never reset
C2_PageSizeStepsByInitial ==
  [][\A f \in Feeds :
       life'[f] = "mounted"
       => \/ pageSize'[f] = pageSize[f]
          \/ pageSize'[f] = pageSize[f] + initialPageSize]_vars

\* C2 witness: a refresh was handled on a grown page, and the page is still grown
C2_Witness ==
  lastOp.op = "onRefresh" /\ pageSize[lastOp.feed] = initialPageSize + 2 * initialPageSize

\* C3 (as claimed): a load that received zero notes leaves notes empty and
\* made no call to the relay pool
C3_EmptyLoadIssuesNothing ==
  (lastOp.op = "loadResolve" /\ lastOp.load.notes = <<>>)
  => /\ calls = <<>>
     /\ life[lastOp.feed] = "mounted" => notes[lastOp.feed] = <<>>

Reposts(ns) == {i \in DOMAIN ns : Truthy(ns[i].repost_id)}

\* the last step ended a load that had received notes and ran to its end,
\* its closure holding a relay pool: it subscribed the originals by id in that
\* step if and only if one of the notes is a repost, and then with exactly the
\* repost ids of the notes
RepostIffReferenced ==
  LET ns == lastOp.load.notes
      byId == {i \in DOMAIN calls :
                 /\ calls[i].op = "subscribe"
                 /\ \E k \in DOMAIN calls[i].filters : "ids" \in calls[i].filters[k].has}
  IN  /\ Reposts(ns) # {} <=> byId # {}
      /\ \A i \in byId : \A k \in DOMAIN calls[i].filters :
           Range(calls[i].filters[k].ids) = {ns[j].repost_id : j \in Reposts(ns)}
LoadEnded(f) ==
  /\ lastOp.op \in LoadOps /\ lastOp.feed = f /\ lastOp.load.stage = "done"
  /\ Len(lastOp.load.notes) > 0 /\ lastOp.load.relayPool

C6_PrimaryRetiredBeforeReissue ==
  \A f \in Feeds : \A i \in Subscribes(Primary(f)) : ~calls[i].wasLive

\* the page-size effect of feed f ran in the last step
GrowthEffectRan(f) ==
  lastOp.op = "effects" /\ lastOp.feed = f /\ "pageSize" \in lastOp.ran

\* the last step reissued the primary subscription of f at the current pageSize
ReissuedAtPageSize(f) ==
  /\ Subscribes(Primary(f)) # {}
  /\ \A i \in Subscribes(Primary(f)) : Limits(calls[i].filters) = {pageSize[f]}
  /\ live[Primary(f)] # NoSub
  /\ Limits(live[Primary(f)]) = {pageSize[f]}

\* C7 (as claimed): with the public key and the database present, the effect of
\* a page growth reissues the primary subscription with limit = the new pageSize
C7_GrowthReissuesAtNewPageSize ==
  \A f \in Feeds : (GrowthEffectRan(f) /\ database /\ publicKey) => ReissuedAtPageSize(f)

\* C7 (amended): the same, when the relay pool is present too
C7_GrowthReissuesWithPool ==
  \A f \in Feeds : (GrowthEffectRan(f) /\ ContextPresent) => ReissuedAtPageSize(f)

\* C7 witness: the growth from 10 was followed by a primary subscription of limit 20
C7_Witness ==
  \E f \in Feeds :
    /\ GrowthEffectRan(f) /\ ContextPresent
    /\ pageSize[f] = initialPageSize + initialPageSize
    /\ Limits(live[Primary(f)]) = {initialPageSize + initialPageSize}

\* C8 (as claimed): the effect of a page growth starts no load, in either feed
C8_GrowthStartsNoLoad ==
  [][\A f \in Feeds :
       (lastOp'.op = "effects" /\ lastOp'.feed = f /\ lastOp'.ran = {"pageSize"})
       => loads'[f] = loads[f]]_vars

\* C8 (amended): in ReactionsFeed neither onScroll nor the effect of a page
\* growth starts a load or changes notes; in either feed onScroll starts no
\* load, and notes change only when a load's Store query resolves (or the
\* component is removed)
C8_GrowthOnlyResubscribesInReactions ==
  [][/\ \A f \in Feeds :
          (lastOp'.op = "onScroll" /\ lastOp'.feed = f)
          => loads'[f] = loads[f] /\ notes'[f] = notes[f]
     /\ (lastOp'.op = "effects" /\ lastOp'.feed = RF /\ lastOp'.ran = {"pageSize"})
          => loads'[RF] = loads[RF] /\ notes'[RF] = notes[RF]
     /\ notes' # notes => lastOp'.op \in {"loadResolve", "unmount"}]_vars

\* C8 witness: ReactionsFeed's page-size effect alone ran and re-subscribed
C8_Witness ==
  /\ lastOp.op = "effects" /\ lastOp.feed = RF /\ lastOp.ran = {"pageSize"}
  /\ Subscribes(Primary(RF)) # {}

\* C9 (as claimed, in the case of a feed whose every render saw the database,
\* the public key and the relay pool): right after onRefresh was handled,
\* refreshing is true
C9_RefreshingAfterRefresh ==
  (lastOp.op = "onRefresh" /\ ContextPresent /\ FirstContextPresent(lastOp.feed))
  => refreshing[lastOp.feed]

\* C10 (as claimed): when a load of a mounted feed (whose every render saw the
\* whole context) has ended, by its last subscription or by a rejected Store
\* promise, refreshing is false
C10_LoadEndsNotRefreshing ==
  (lastOp.op \in LoadOps /\ lastOp.load.stage \in {"done", "failed"}
     /\ life[lastOp.feed] = "mounted" /\ ContextPresent
     /\ FirstContextPresent(lastOp.feed))
  => ~refreshing[lastOp.feed]

\* the handlers of a feed: first render, effects, onScroll, onRefresh
FeedOps == {"mount", "effects", "onScroll", "onRefresh"}

\* C11 (as claimed): while the public key is undefined, a handler of a feed
\* (mount, effects, onScroll, onRefresh) makes no call to the relay pool and
\* leaves pageSize, notes and refreshing as they were
C11_NoOpWithoutPublicKey ==
  [][(~publicKey' /\ lastOp'.op \in FeedOps)
       => /\ calls' = <<>>
          /\ pageSize' = pageSize
          /\ notes' = notes
          /\ refreshing' = refreshing]_vars

\* the channel names a feed uses
Namespace(f) == IF f = RF THEN Range(RFChannels) ELSE Range(NFChannels)

\* C12 (as claimed): a step of one feed (handler or load continuation) leaves
\* every live subscription of the other, mounted, feed as it was
C12_FeedsKeepToOwnChannels ==
  [][\A f \in Feeds, g \in Feeds :
       (f # g /\ lastOp'.op # "none" /\ lastOp'.feed = f /\ life[g] = "mounted")
       => \A n \in Namespace(g) : live[n] # NoSub => live'[n] = live[n]]_vars

\* C13 (as claimed): once a feed is removed, the relay pool holds no live
\* subscription under the names of that feed
C13_TeardownRetiresSubscriptions ==
  \A f \in Feeds : life[f] = "gone" => \A n \in Namespace(f) : live[n] = NoSub

\* C14 (as claimed): a feed has at most one loadNotes in flight, so that no
\* step of one load falls between the Store reads and the subscriptions of
\* another
C14_LoadsDoNotOverlap ==
  \A f \in Feeds : BagCardinality(loads[f]) <= 1

\* the page queries started in the last step
Queries == {i \in DOMAIN calls : calls[i].op = "query"}

\* C15 (as claimed, in the case where the relay pool is defined too): the
\* first commit of a feed retires the channel names of the feed, then
\* subscribes the primary channel with limit initialPageSize, then starts one
\* load with that limit, and does nothing else
C15_InitializesOnceInOrder ==
  \A f \in Feeds :
    (lastOp.op = "mount" /\ lastOp.feed = f /\ ContextPresent)
    => /\ Len(calls) = 3
       /\ Retires(Primary(f)) = {1} /\ Namespace(f) \subseteq calls[1].names
       /\ Subscribes(Primary(f)) = {2} /\ Limits(calls[2].filters) = {initialPageSize}
       /\ Queries = {3} /\ Limits(calls[3].filters) = {initialPageSize}

\* the filters of the last step's subscriptions that ask for metadata by author
MetaAuthors ==
  UNION {{calls[i].filters[k].authors :
            k \in {m \in DOMAIN calls[i].filters :
                     /\ "authors" \in calls[i].filters[m].has
                     /\ calls[i].filters[m].kinds \subseteq {"Metadata", "meta"}}} :
         i \in {j \in DOMAIN calls : calls[j].op = "subscribe"}}
\* the authors of the notes ns
Authors(ns) == {ns[j].pubkey : j \in DOMAIN ns} \ {Undefined}

\* C16 (as claimed): a load that received notes subscribes the metadata of
\* exactly the authors of the notes, each author once
C16_MetaAuthorsDistinct ==
  (lastOp.op = "loadResolve" /\ Len(lastOp.load.notes) > 0 /\ lastOp.load.relayPool)
  => /\ MetaAuthors # {}
     /\ \A a \in MetaAuthors :
          /\ Range(a) \ {Undefined, EmptyString} = Authors(lastOp.load.notes)
          /\ \A i \in DOMAIN a, j \in DOMAIN a : a[i] = a[j] => i = j

C18_SecondaryFollowsDisplayed ==
  (life[RF] = "mounted" /\ loads[RF] = EmptyBag)
  => \A n \in {"homepage-contacts-reactions", "homepage-contacts-replies"} :
       live[n] # NoSub
       => \A k \in DOMAIN live[n] : live[n][k].e = NoteIds(notes[RF])

====
